---- MODULE Spec2Model ----
(***************************************************************************)
(* recmaJsxRewrite (src/lib/plugin/recma-jsx-rewrite.js): the pass that    *)
(* walks a program once, collects the element names used inside every      *)
(* outermost function, rewrites tag names to `_components.<name>` and       *)
(* injects the `_components` declarations, the missing-component helper     *)
(* and the provider import.                                                 *)
(*                                                                         *)
(* The tree is revealed in traversal order: every step of the walk hands   *)
(* one node to onenter or onleave, and the nodes handed over so far are    *)
(* kept in `functions`, `elements` and `body`, with their parent links.    *)
(* Children of an element are flattened into the traversal order (onenter  *)
(* does not look at the elements an element is nested in).                 *)
(***************************************************************************)
EXTENDS Naturals, Sequences, FiniteSets

\* ------------------------------------------------------------- bounds
MaxNodes == 3
MaxDepth == 2

\* ------------------------------------------------------------- values
null == "null"

Includes(s, x) == \E i \in 1..Len(s) : s[i] = x
Count(s, x) == Cardinality({i \in 1..Len(s) : s[i] = x})

\* u(type, props): the node constructors used by the pass
JSXIdentifier(n) == [type |-> "JSXIdentifier", name |-> n]
JSXMemberExpression(o, p) == [type |-> "JSXMemberExpression", object |-> o, property |-> p]
JSXNamespacedName(ns, n) == [type |-> "JSXNamespacedName", namespace |-> ns, local |-> n]
Identifier(n) == [type |-> "Identifier", name |-> n]
Literal(v) == [type |-> "Literal", value |-> v]
CallExpression(c, args) == [type |-> "CallExpression", callee |-> c, arguments |-> args]
MemberExpression(o, p) == [type |-> "MemberExpression", object |-> o, property |-> p]
ObjectExpression(props) == [type |-> "ObjectExpression", properties |-> props]
ObjectPattern(props) == [type |-> "ObjectPattern", properties |-> props]
Property(sh, k, v) == [type |-> "Property", kind |-> "init", shorthand |-> sh, key |-> k, value |-> v]
VariableDeclarator(i, init) == [type |-> "VariableDeclarator", id |-> i, init |-> init]
VariableDeclaration(decls) == [type |-> "VariableDeclaration", kind |-> "const", declarations |-> decls]
ReturnStatement(arg) == [type |-> "ReturnStatement", argument |-> arg]
BlockStatement(stmts) == [type |-> "BlockStatement", body |-> stmts]

\* the body of an arrow function with an implied return, and the statements
\* of an input block
ExpressionBody == [type |-> "Expression", body |-> <<>>]
OriginalStatement(n) == [type |-> "Statement", n |-> n]
OriginalBlock == BlockStatement(<<OriginalStatement(1), OriginalStatement(2)>>)

\* ------------------------------------------------------------- names
\* The characters of the identifier names the input elements use.
Chars(n) ==
  CASE n = "a" -> <<"a">>
    [] n = "Foo" -> <<"F", "o", "o">>
    [] n = "MDXLayout" -> <<"M", "D", "X", "L", "a", "y", "o", "u", "t">>
    [] n = "A-b" -> <<"A", "-", "b">>
    [] OTHER -> <<>>

LowerCase == {"a", "b", "o", "u", "t", "y"}
UpperCase == {"A", "F", "M", "D", "X", "L"}
Digits == {"0", "1"}

\* estree-util-is-identifier-name: a start character, then continue characters
IdStart(c) == c \in LowerCase \cup UpperCase \cup {"$", "_"}
IdContinue(c) == IdStart(c) \/ c \in Digits

isIdentifierName(n) ==
  LET cs == Chars(n)
  IN  /\ Len(cs) > 0
      /\ IdStart(cs[1])
      /\ \A i \in 2..Len(cs) : IdContinue(cs[i])

\* /^[a-z]/.test(name)
StartsLowerCase(n) == Len(Chars(n)) > 0 /\ Chars(n)[1] \in LowerCase

\* while (name.type === 'JSXMemberExpression') name = name.object
RECURSIVE Leftmost(_)
Leftmost(name) ==
  IF name.type = "JSXMemberExpression" THEN Leftmost(name.object) ELSE name

\* ------------------------------------------------------------- inputs
\* A function node: its type, the name of node.id (null without one), the name
\* the function is bound to (its own name for a declaration, the declared
\* variable for `const MDXContent = (_props) => ...`), the names of its
\* parameters and its body.
Function(type, id, binding, params, body) ==
  [type |-> type, id |-> id, binding |-> binding, params |-> params, body |-> body]

FunctionShapes ==
  { Function("FunctionDeclaration", "MDXContent", "MDXContent", <<"_props">>, OriginalBlock),
    Function("FunctionDeclaration", "MDXContent", "MDXContent", <<"props">>, OriginalBlock),
    Function("FunctionDeclaration", null, null, <<>>, OriginalBlock),
    Function("FunctionExpression", null, null, <<>>, OriginalBlock),
    Function("ArrowFunctionExpression", null, "MDXContent", <<"_props">>, ExpressionBody) }

Element(name, explicit, closing) ==
  [name |-> name, explicit |-> explicit, closing |-> closing]

ElementShapes ==
  { Element(JSXIdentifier("a"), FALSE, TRUE),
    Element(JSXIdentifier("a"), FALSE, FALSE),
    Element(JSXIdentifier("a"), TRUE, TRUE),
    Element(JSXIdentifier("Foo"), FALSE, FALSE),
    Element(JSXIdentifier("MDXLayout"), TRUE, TRUE),
    Element(JSXIdentifier("A-b"), FALSE, FALSE),
    Element(JSXMemberExpression(JSXIdentifier("Foo"), JSXIdentifier("Bar")), FALSE, FALSE),
    Element(JSXMemberExpression(JSXMemberExpression(JSXIdentifier("MDXLayout"),
              JSXIdentifier("Bar")), JSXIdentifier("Baz")), FALSE, TRUE),
    Element(JSXNamespacedName("xml", "thing"), FALSE, TRUE) }

\* analyze(tree).scope.declarations: the names bound at the outermost level
TopScopes == { {"MDXContent"}, {"MDXContent", "a", "Foo", "MDXLayout"} }

\* recmaJsxRewrite(options)
Options ==
  { [providerImportSource |-> null, outputFormat |-> "program"],
    [providerImportSource |-> "x", outputFormat |-> "program"],
    [providerImportSource |-> "x", outputFormat |-> "function-body"] }

\* ------------------------------------------------------------- state
VARIABLES
  options,                   \* {providerImportSource, outputFormat}
  topScope,                  \* the names declared in the top-level scope
  functions,                 \* the function nodes entered so far, in order
  elements,                  \* the element nodes entered so far, in order
  body,                      \* tree.body: the root statements
  path,                      \* the walker's open function nodes, outermost first
  stack,                     \* the scope frames
  useMissingComponentHelper,
  importProvider,
  pc                         \* "walk", "done", or "error" (a TypeError was thrown)

vars == <<options, topScope, functions, elements, body, path, stack,
          useMissingComponentHelper, importProvider, pc>>

Init ==
  /\ options \in Options
  /\ topScope \in TopScopes
  /\ functions = <<>>
  /\ elements = <<>>
  /\ body = <<>>
  /\ path = <<>>
  /\ stack = <<>>
  /\ useMissingComponentHelper = FALSE
  /\ importProvider = FALSE
  /\ pc = "walk"

NodeCount == Len(functions) + Len(elements)
Last(s) == s[Len(s)]
RootStatement(kind, i) == [type |-> "RootStatement", kind |-> kind, index |-> i]

\* ------------------------------------------------------------- onenter
\* stack.push({objects: [], components: [], tags: []})
EmptyScope == [objects |-> <<>>, components |-> <<>>, tags |-> <<>>]

IsFunction(type) ==
  type \in {"FunctionDeclaration", "FunctionExpression", "ArrowFunctionExpression"}

\* Every valid identifier taken for a component name, whatever its first letter.
IsComponentNameAnyCase(n) == isIdentifierName(n)

\* name.name is a component name: a valid identifier that does not start
\* with a lowercase letter
IsComponentName(n) == isIdentifierName(n) /\ ~StartsLowerCase(n)

\* The if-chain with the explicit-JSX test put before the component test.
ClassifyExplicitFirst(name, explicit) ==
  IF name.type = "JSXMemberExpression" THEN "object"
  ELSE IF name.type = "JSXNamespacedName" THEN "namespace"
  ELSE IF explicit THEN "explicit"
  ELSE IF IsComponentName(name.name) THEN "component"
  ELSE "tag"

\* The branch of onenter's if-chain an element takes.
Classify(name, explicit) ==
  IF name.type = "JSXMemberExpression" THEN "object"
  ELSE IF name.type = "JSXNamespacedName" THEN "namespace"
  ELSE IF IsComponentName(name.name) THEN "component"
  ELSE IF explicit THEN "explicit"
  ELSE "tag"

\* scope.objects after the element is entered
ObjectsAfter(scope, name) ==
  LET id == Leftmost(name).name
  IN  IF ~Includes(scope.objects, id) /\ id \notin topScope
      THEN Append(scope.objects, id)
      ELSE scope.objects

\* The components test without the lookup in topScope.
ComponentsAfterNoTopScope(scope, name) ==
  IF ~Includes(scope.components, name.name)
  THEN Append(scope.components, name.name)
  ELSE scope.components

\* scope.components after the element is entered
ComponentsAfter(scope, name) ==
  IF ~Includes(scope.components, name.name) /\ name.name \notin topScope
  THEN Append(scope.components, name.name)
  ELSE scope.components

\* A push of the tag name without the includes() test.
TagsAfterNoIncludes(scope, name) == Append(scope.tags, name.name)

\* scope.tags after the element is entered
TagsAfter(scope, name) ==
  IF ~Includes(scope.tags, name.name)
  THEN Append(scope.tags, name.name)
  ELSE scope.tags

\* The frame stack[0] after onenter(node) for an element
ScopeAfter(scope, name, explicit) ==
  LET branch == Classify(name, explicit)
  IN  CASE branch = "object" -> [scope EXCEPT !.objects = ObjectsAfter(scope, name)]
        [] branch = "component" -> [scope EXCEPT !.components = ComponentsAfter(scope, name)]
        [] branch = "tag" -> [scope EXCEPT !.tags = TagsAfter(scope, name)]
        [] OTHER -> scope

\* The discovery recorded in the innermost frame instead of stack[0].
StackAfterInnermost(frames, name, explicit) ==
  [frames EXCEPT ![Len(frames)] = ScopeAfter(frames[Len(frames)], name, explicit)]

\* scope = stack[0]: the stack after onenter(node) for an element
StackAfter(frames, name, explicit) ==
  [frames EXCEPT ![1] = ScopeAfter(frames[1], name, explicit)]

\* The helper marked as used for MDXLayout as well.
HelperAfterAlsoLayout(scope, name, explicit) ==
  IF /\ Classify(name, explicit) = "component"
     /\ ~Includes(scope.components, name.name)
     /\ name.name \notin topScope
  THEN TRUE
  ELSE useMissingComponentHelper

\* useMissingComponentHelper after onenter(node) for an element
HelperAfter(scope, name, explicit) ==
  IF /\ Classify(name, explicit) = "component"
     /\ ~Includes(scope.components, name.name)
     /\ name.name \notin topScope
     /\ name.name # "MDXLayout"
  THEN TRUE
  ELSE useMissingComponentHelper

\* Literal markup redirected like a tag.
OpeningAfterAlsoExplicit(name, explicit) ==
  IF Classify(name, FALSE) = "tag"
  THEN JSXMemberExpression(JSXIdentifier("_components"), name)
  ELSE name

\* node.openingElement.name after onenter(node)
OpeningAfter(name, explicit) ==
  IF Classify(name, explicit) = "tag"
  THEN JSXMemberExpression(JSXIdentifier("_components"), name)
  ELSE name

\* The name redirected whether or not a function is open.
NameAfterAnyStack(frames, name, explicit) == OpeningAfter(name, explicit)

\* node.openingElement.name after onenter(node): an element entered while the
\* stack is empty is passed over
NameAfter(frames, name, explicit) ==
  IF Len(frames) > 0 THEN OpeningAfter(name, explicit) ELSE name

\* node.closingElement of an input element: empty when the element has none
ClosingElement(name, closing) ==
  IF closing THEN << [name |-> name] >> ELSE <<>>

\* node.closingElement after onenter(node)
ClosingAfter(name, explicit, closing) ==
  IF closing /\ Classify(name, explicit) = "tag"
  THEN << [name |-> JSXMemberExpression(JSXIdentifier("_components"),
                                        JSXIdentifier(name.name))] >>
  ELSE ClosingElement(name, closing)

\* onenter(node), node a function
EnterFunction(shape) ==
  /\ pc = "walk"
  /\ NodeCount < MaxNodes
  /\ Len(path) < MaxDepth
  \* analyze(tree) has put the name a root-level function is bound to in topScope
  /\ (path = <<>> /\ shape.binding # null) => shape.binding \in topScope
  /\ IsFunction(shape.type)
  /\ functions' = Append(functions,
       [type |-> shape.type, id |-> shape.id, binding |-> shape.binding,
        params |-> shape.params, body |-> shape.body, body0 |-> shape.body,
        parent |-> IF path = <<>> THEN 0 ELSE Last(path)])
  /\ path' = Append(path, Len(functions) + 1)
  /\ stack' = Append(stack, EmptyScope)
  /\ body' = IF path = <<>>
             THEN Append(body, RootStatement("function", Len(functions) + 1))
             ELSE body
  /\ UNCHANGED <<options, topScope, elements, useMissingComponentHelper,
                 importProvider, pc>>

\* onenter(node), node a JSXElement
EnterElement(shape) ==
  /\ pc = "walk"
  /\ NodeCount < MaxNodes
  /\ LET inFunction == Len(stack) > 0
         name == shape.name
     IN  /\ elements' = Append(elements,
               [name0 |-> name,
                explicit |-> shape.explicit,
                opening |-> NameAfter(stack, name, shape.explicit),
                closing |-> IF inFunction
                            THEN ClosingAfter(name, shape.explicit, shape.closing)
                            ELSE ClosingElement(name, shape.closing),
                parent |-> IF path = <<>> THEN 0 ELSE Last(path),
                top |-> IF path = <<>> THEN 0 ELSE path[1]])
         /\ stack' = IF inFunction
                     THEN StackAfter(stack, name, shape.explicit)
                     ELSE stack
         /\ useMissingComponentHelper' =
              IF inFunction THEN HelperAfter(stack[1], name, shape.explicit)
              ELSE useMissingComponentHelper
  /\ body' = IF path = <<>>
             THEN Append(body, RootStatement("element", Len(elements) + 1))
             ELSE body
  /\ UNCHANGED <<options, topScope, functions, path, importProvider, pc>>

\* ------------------------------------------------------------- onleave
\* defaults: one entry per tag, one per component other than MDXLayout
RECURSIVE TagDefaults(_)
TagDefaults(tags) ==
  IF tags = <<>> THEN <<>>
  ELSE <<Property(FALSE, Identifier(Head(tags)), Literal(Head(tags)))>>
         \o TagDefaults(Tail(tags))

\* Component fallbacks written like tag fallbacks, as string literals.
RECURSIVE ComponentDefaultsAsLiterals(_)
ComponentDefaultsAsLiterals(components) ==
  IF components = <<>> THEN <<>>
  ELSE <<Property(FALSE, Identifier(Head(components)), Literal(Head(components)))>>
       \o ComponentDefaultsAsLiterals(Tail(components))

RECURSIVE ComponentDefaults(_)
ComponentDefaults(components) ==
  IF components = <<>> THEN <<>>
  ELSE (IF Head(components) # "MDXLayout"
        THEN <<Property(FALSE, Identifier(Head(components)),
                 CallExpression(Identifier("_missingComponent"),
                                <<Literal(Head(components))>>))>>
        ELSE <<>>)
       \o ComponentDefaults(Tail(components))

Defaults(scope) == TagDefaults(scope.tags) \o ComponentDefaults(scope.components)

\* actual: one entry per component (MDXLayout under the key `wrapper`), then
\* one per object
RECURSIVE ComponentActual(_)
ComponentActual(components) ==
  IF components = <<>> THEN <<>>
  ELSE <<Property(Head(components) # "MDXLayout",
            Identifier(IF Head(components) = "MDXLayout" THEN "wrapper"
                       ELSE Head(components)),
            Identifier(Head(components)))>>
       \o ComponentActual(Tail(components))

RECURSIVE ObjectActual(_)
ObjectActual(objects) ==
  IF objects = <<>> THEN <<>>
  ELSE <<Property(TRUE, Identifier(Head(objects)), Identifier(Head(objects)))>>
       \o ObjectActual(Tail(objects))

Actual(scope) == ComponentActual(scope.components) \o ObjectActual(scope.objects)

\* The injection made for every function, whatever its frame holds.
InjectsAlways(scope) == TRUE

\* defaults.length > 0 || actual.length > 0
Injects(scope) == Len(Defaults(scope)) > 0 \/ Len(Actual(scope)) > 0

\* if (providerImportSource)
UsesProvider == options.providerImportSource # null

\* node.type === 'FunctionDeclaration' && node.id.name === 'MDXContent': the
\* second operand reads `name` of node.id, which is null for a declaration
\* without a name
ThrowsOnId(node) == node.type = "FunctionDeclaration" /\ node.id = null

IsMDXContent(node) == node.type = "FunctionDeclaration" /\ node.id = "MDXContent"

ProviderCall == CallExpression(Identifier("_provideComponents"), <<>>)
PropsComponents == MemberExpression(Identifier("_props"), Identifier("components"))

\* The parts with the props access put before the provider call.
ParametersPropsFirst(node, scope) ==
  <<ObjectExpression(Defaults(scope))>>
    \o (IF IsMDXContent(node) THEN <<PropsComponents>> ELSE <<>>)
    \o (IF UsesProvider THEN <<ProviderCall>> ELSE <<>>)

Parameters(node, scope) ==
  <<ObjectExpression(Defaults(scope))>>
    \o (IF UsesProvider THEN <<ProviderCall>> ELSE <<>>)
    \o (IF IsMDXContent(node) THEN <<PropsComponents>> ELSE <<>>)

ComponentsInit(parameters) ==
  IF Len(parameters) > 1
  THEN CallExpression(MemberExpression(Identifier("Object"), Identifier("assign")),
                      parameters)
  ELSE parameters[1]

\* The destructuring put before the binding it reads.
DeclarationsPatternFirst(node, scope) ==
  (IF Len(Actual(scope)) > 0
   THEN <<VariableDeclarator(ObjectPattern(Actual(scope)),
                             Identifier("_components"))>>
   ELSE <<>>)
    \o <<VariableDeclarator(Identifier("_components"),
                            ComponentsInit(Parameters(node, scope)))>>

Declarations(node, scope) ==
  <<VariableDeclarator(Identifier("_components"),
                       ComponentsInit(Parameters(node, scope)))>>
    \o (IF Len(Actual(scope)) > 0
        THEN <<VariableDeclarator(ObjectPattern(Actual(scope)),
                                  Identifier("_components"))>>
        ELSE <<>>)

\* node.body after the injection: an implied return is wrapped into a block,
\* then the declaration is put first
BodyAfter(node, scope) ==
  LET block == IF node.body.type # "BlockStatement"
               THEN BlockStatement(<<ReturnStatement(node.body)>>)
               ELSE node.body
  IN  BlockStatement(<<VariableDeclaration(Declarations(node, scope))>> \o block.body)

\* The first frame removed instead of the last.
PoppedFirst(frames) == Tail(frames)

\* stack.pop(): the stack that is left
Popped(frames) == SubSeq(frames, 1, Len(frames) - 1)

\* onleave(node), node a function: the innermost open function is left
LeaveFunction ==
  /\ pc = "walk"
  /\ path # <<>>
  /\ LET n == Last(path)
         node == functions[n]
         scope == Last(stack)
     IN  /\ stack' = Popped(stack)
         /\ path' = SubSeq(path, 1, Len(path) - 1)
         /\ importProvider' = IF Injects(scope) /\ UsesProvider THEN TRUE
                              ELSE importProvider
         /\ IF Injects(scope) /\ ThrowsOnId(node)
            THEN /\ pc' = "error"
                 /\ functions' = functions
            ELSE /\ pc' = pc
                 /\ functions' = IF Injects(scope)
                                 THEN [functions EXCEPT ![n].body = BodyAfter(node, scope)]
                                 ELSE functions
  /\ UNCHANGED <<options, topScope, elements, body, useMissingComponentHelper>>

\* ------------------------------------------------------------- transform
BinaryExpression(op, l, r) ==
  [type |-> "BinaryExpression", operator |-> op, left |-> l, right |-> r]

\* A helper that throws when it is called, not when its result is called.
createMissingComponentHelperEager ==
  [type |-> "FunctionDeclaration",
   id |-> Identifier("_missingComponent"),
   params |-> <<Identifier("name")>>,
   body |-> BlockStatement(<<
     [type |-> "ThrowStatement",
      argument |->
        [type |-> "NewExpression",
         callee |-> Identifier("Error"),
         arguments |-> <<BinaryExpression("+",
           BinaryExpression("+", Literal("Component {backtick}"), Identifier("name")),
           Literal("{backtick} was not imported, exported, or given"))>>]]>>)]

\* (a string of the module cannot hold a backtick: it is written {backtick})
createMissingComponentHelper ==
  [type |-> "FunctionDeclaration",
   id |-> Identifier("_missingComponent"),
   params |-> <<Identifier("name")>>,
   body |-> BlockStatement(<<ReturnStatement(
     [type |-> "FunctionExpression",
      params |-> <<>>,
      body |-> BlockStatement(<<
        [type |-> "ThrowStatement",
         argument |->
           [type |-> "NewExpression",
            callee |-> Identifier("Error"),
            arguments |-> <<BinaryExpression("+",
              BinaryExpression("+", Literal("Component {backtick}"), Identifier("name")),
              Literal("{backtick} was not imported, exported, or given"))>>]]>>)])>>)]

\* (the literal 0 of `arguments[0]` is written as the string "0")
createImportProvider(providerImportSource, outputFormat) ==
  LET specifiers == << [type |-> "ImportSpecifier",
                        imported |-> Identifier("useMDXComponents"),
                        local |-> Identifier("_provideComponents")] >>
  IN  IF outputFormat = "function-body"
      THEN VariableDeclaration(
             <<VariableDeclarator(ObjectPattern(specifiers),
                 MemberExpression(Identifier("arguments"), Literal("0")))>>)
      ELSE [type |-> "ImportDeclaration", specifiers |-> specifiers,
            source |-> Literal(providerImportSource)]

\* The two unshifts in the other order: the helper ends up first.
BodyUnshiftedImportFirst(stmts, helper, provider) ==
  LET withImport == IF provider
                    THEN <<createImportProvider(options.providerImportSource,
                                                options.outputFormat)>> \o stmts
                    ELSE stmts
  IN  IF helper THEN <<createMissingComponentHelper>> \o withImport
      ELSE withImport

\* tree.body after the two conditional unshifts: the helper first, then the
\* provider import in front of it
BodyUnshifted(stmts, helper, provider) ==
  LET withHelper == IF helper THEN <<createMissingComponentHelper>> \o stmts
                    ELSE stmts
  IN  IF provider
      THEN <<createImportProvider(options.providerImportSource,
                                  options.outputFormat)>> \o withHelper
      ELSE withHelper

\* The statements of transform after walk(tree, ...) has returned
Finish ==
  /\ pc = "walk"
  /\ path = <<>>
  /\ body' = BodyUnshifted(body, useMissingComponentHelper, importProvider)
  /\ pc' = "done"
  /\ UNCHANGED <<options, topScope, functions, elements, path, stack,
                 useMissingComponentHelper, importProvider>>

Next ==
  \/ \E shape \in FunctionShapes : EnterFunction(shape)
  \/ \E shape \in ElementShapes : EnterElement(shape)
  \/ LeaveFunction
  \/ Finish

Spec == Init /\ [][Next]_vars

\* ------------------------------------------------------------- reading the output
\* The function has received the injected declaration.
Injected(i) ==
  /\ functions[i].body.type = "BlockStatement"
  /\ Len(functions[i].body.body) > 0
  /\ functions[i].body.body[1].type = "VariableDeclaration"

InjectedDeclarations(i) == functions[i].body.body[1].declarations

\* The initializer of `_components`, and its parts
InitOf(i) == InjectedDeclarations(i)[1].init
PartsOf(i) ==
  IF InitOf(i).type = "CallExpression" THEN InitOf(i).arguments ELSE <<InitOf(i)>>

\* The properties of the defaults object and of the destructuring pattern
DefaultsOf(i) == PartsOf(i)[1].properties
PatternOf(i) ==
  IF Len(InjectedDeclarations(i)) > 1
  THEN InjectedDeclarations(i)[2].id.properties
  ELSE <<>>

KeyCount(props, n) == Cardinality({k \in 1..Len(props) : props[k].key.name = n})

ComponentsMember(n) ==
  JSXMemberExpression(JSXIdentifier("_components"), JSXIdentifier(n))

\* The element was entered as a plain-identifier name, in a function
PlainInFunction(e) == e.top # 0 /\ e.name0.type = "JSXIdentifier"

NamesUnchanged(e) ==
  /\ e.opening = e.name0
  /\ e.closing # <<>> => e.closing[1].name = e.name0

\* ------------------------------------------------------------- C1
IsRedirectedTag(e) ==
  /\ PlainInFunction(e)
  /\ StartsLowerCase(e.name0.name)
  /\ ~e.explicit

\* C1: after the pass, every non-literal lowercase plain-identifier element
\* visited inside a function has the opening name (and the closing name, when it
\* has one) `_components.<name>`, and the defaults object of its outermost
\* enclosing function holds the entry `<name>: "<name>"` exactly once.
C1_TagsRedirected ==
  pc = "done" =>
    \A k \in 1..Len(elements) :
      LET e == elements[k]
          n == e.name0.name
      IN  IsRedirectedTag(e) =>
            /\ e.opening = ComponentsMember(n)
            /\ e.closing # <<>> => e.closing[1].name = ComponentsMember(n)
            /\ Injected(e.top)
            /\ Count(DefaultsOf(e.top), Property(FALSE, Identifier(n), Literal(n))) = 1
            /\ KeyCount(DefaultsOf(e.top), n) = 1

\* Two elements of one function share a redirected tag name, one of them with
\* a closing name, and the pass has ended.
C1_Witness ==
  /\ pc = "done"
  /\ \E j, k \in 1..Len(elements) :
       /\ j # k
       /\ IsRedirectedTag(elements[j]) /\ IsRedirectedTag(elements[k])
       /\ elements[j].name0 = elements[k].name0
       /\ elements[j].top = elements[k].top
       /\ elements[j].closing # <<>>
       /\ elements[k].closing = <<>>

\* ------------------------------------------------------------- C2
IsMissingComponent(e) ==
  /\ PlainInFunction(e)
  /\ isIdentifierName(e.name0.name)
  /\ Chars(e.name0.name)[1] \in UpperCase
  /\ e.name0.name \notin topScope
  /\ e.name0.name # "MDXLayout"

\* C2: after the pass, for every element in a function whose name is a valid
\* identifier starting with an uppercase letter, not in TopScope and not
\* MDXLayout, the defaults of the outermost enclosing function hold
\* `<name>: _missingComponent("<name>")` and its pattern binds <name> shorthand.
C2_ComponentFallback ==
  pc = "done" =>
    \A k \in 1..Len(elements) :
      LET e == elements[k]
          n == e.name0.name
      IN  IsMissingComponent(e) =>
            /\ Injected(e.top)
            /\ Includes(DefaultsOf(e.top),
                 Property(FALSE, Identifier(n),
                   CallExpression(Identifier("_missingComponent"), <<Literal(n)>>)))
            /\ Includes(PatternOf(e.top), Property(TRUE, Identifier(n), Identifier(n)))

C2_Witness ==
  /\ pc = "done"
  /\ \E k \in 1..Len(elements) :
       /\ IsMissingComponent(elements[k])
       /\ functions[elements[k].top].parent = 0
       /\ elements[k].parent # elements[k].top

\* ------------------------------------------------------------- C3
\* MDXLayout was tracked in function i: an element of the function is named
\* MDXLayout, or is a member chain that starts with it, and the name is not
\* bound in the top-level scope.
DiscoversLayout(i) ==
  /\ "MDXLayout" \notin topScope
  /\ \E k \in 1..Len(elements) :
       /\ elements[k].top = i
       /\ elements[k].name0.type \in {"JSXIdentifier", "JSXMemberExpression"}
       /\ Leftmost(elements[k].name0).name = "MDXLayout"

\* C3: in every function that receives an injection in which MDXLayout was
\* discovered, as an element name or as the leftmost identifier of a member
\* chain, MDXLayout has no entry in the defaults and the pattern binds it as
\* `wrapper: MDXLayout`, never under the key MDXLayout.
C3_LayoutIsWrapper ==
  \A i \in 1..Len(functions) :
    (Injected(i) /\ DiscoversLayout(i)) =>
      /\ KeyCount(DefaultsOf(i), "MDXLayout") = 0
      /\ Includes(PatternOf(i),
           Property(FALSE, Identifier("wrapper"), Identifier("MDXLayout")))
      /\ KeyCount(PatternOf(i), "MDXLayout") = 0

\* ------------------------------------------------------------- C4
FramesAvoid(names, fields) ==
  \A i \in 1..Len(stack) :
    \A n \in names :
      /\ ("objects" \in fields) => ~Includes(stack[i].objects, n)
      /\ ("components" \in fields) => ~Includes(stack[i].components, n)
      /\ ("tags" \in fields) => ~Includes(stack[i].tags, n)

\* C4 as stated: at every point of the traversal no name of TopScope is in the
\* objects, components or tags of any frame.
C4_NoTopScopeNameInAnySet == FramesAvoid(topScope, {"objects", "components", "tags"})

\* C4, amended: at every point of the traversal no name of TopScope is in the
\* objects or components of any frame (tags are collected without a look at
\* TopScope), and no step of the pass changes TopScope.
C4_NoTopScopeNameInObjectsOrComponents ==
  [][/\ topScope' = topScope
     /\ FramesAvoid(topScope, {"objects", "components"})']_vars

\* Inside a function, a component name and a member chain whose root are both
\* bound at the top level have been entered.
C4_Witness ==
  /\ stack # <<>>
  /\ \E k \in 1..Len(elements) :
       /\ PlainInFunction(elements[k])
       /\ Classify(elements[k].name0, elements[k].explicit) = "component"
       /\ elements[k].name0.name \in topScope
  /\ \E k \in 1..Len(elements) :
       /\ elements[k].top # 0
       /\ elements[k].name0.type = "JSXMemberExpression"
       /\ Leftmost(elements[k].name0).name \in topScope

\* ------------------------------------------------------------- C5
\* The identifiers of a member chain other than the leftmost one
RECURSIVE ChainProperties(_)
ChainProperties(name) ==
  IF name.type = "JSXMemberExpression"
  THEN {name.property.name} \cup ChainProperties(name.object)
  ELSE {}

\* The names of an element that the pass has to leave out of every set
InertNames(e) ==
  IF e.name0.type = "JSXNamespacedName" THEN {e.name0.namespace, e.name0.local}
  ELSE IF e.name0.type = "JSXMemberExpression" THEN ChainProperties(e.name0)
  ELSE {}

IsTrackedChain(e) ==
  /\ e.top # 0
  /\ e.name0.type = "JSXMemberExpression"
  /\ Leftmost(e.name0).name \notin topScope

\* C5: an element with a namespaced or member-chain name keeps its opening and
\* closing names; a namespaced name adds nothing to any set; a member chain adds
\* only its leftmost identifier, which is once in `objects` and once, as a
\* shorthand entry, in the destructuring pattern of the function.
C5_ChainsAndNamespaces ==
  \A k \in 1..Len(elements) :
    LET e == elements[k]
        root == Leftmost(e.name0).name
    IN  /\ e.name0.type \in {"JSXNamespacedName", "JSXMemberExpression"} =>
             /\ NamesUnchanged(e)
             /\ FramesAvoid(InertNames(e), {"objects", "components", "tags"})
        /\ (IsTrackedChain(e) /\ path # <<>> /\ path[1] = e.top) =>
             Count(stack[1].objects, root) = 1
        /\ (IsTrackedChain(e) /\ Injected(e.top)) =>
             Count(PatternOf(e.top),
                   Property(TRUE, Identifier(root), Identifier(root))) = 1

\* ------------------------------------------------------------- C6
IsLiteralMarkup(e) ==
  /\ e.name0.type = "JSXIdentifier"
  /\ e.explicit
  /\ ~IsComponentName(e.name0.name)

IsLiteralComponent(e) ==
  /\ PlainInFunction(e)
  /\ e.explicit
  /\ IsComponentName(e.name0.name)

\* C6: entering a literal-authored element whose plain name is not a component
\* name changes neither its names nor any set, also when the name is lowercase;
\* entering a literal-authored element with a component name tracks it as a
\* component (unless the name is bound at the top level).
C6_LiteralMarkupUntouched ==
  [][Len(elements') > Len(elements) =>
       LET e == elements'[Len(elements')]
       IN  /\ IsLiteralMarkup(e) => (NamesUnchanged(e) /\ stack' = stack)
           /\ IsLiteralComponent(e) =>
                \/ e.name0.name \in topScope
                \/ Includes(stack'[1].components, e.name0.name)]_vars

\* A function is open in which a literal lowercase element and a literal
\* element with a component name have been entered: no tag is tracked, the
\* component is.
C6_Witness ==
  /\ stack # <<>>
  /\ stack[1].tags = <<>>
  /\ \E k \in 1..Len(elements) :
       /\ IsLiteralMarkup(elements[k])
       /\ elements[k].top = path[1]
       /\ StartsLowerCase(elements[k].name0.name)
       /\ NamesUnchanged(elements[k])
  /\ \E k \in 1..Len(elements) :
       /\ IsLiteralComponent(elements[k])
       /\ elements[k].top = path[1]
       /\ Includes(stack[1].components, elements[k].name0.name)

\* ------------------------------------------------------------- C7
\* C7: leaving a function whose popped frame holds no tag, component or object
\* injects nothing: no function node changes, and the body of the function is
\* the body it came with (an implied return stays an expression).
C7_EmptyFrameInjectsNothing ==
  [][(Len(stack') < Len(stack) /\ stack[Len(stack)] = EmptyScope) =>
       /\ functions' = functions
       /\ functions'[path[Len(path)]].body = functions[path[Len(path)]].body0
       /\ pc' = "walk"]_vars

\* An arrow function with an implied return, nested in a function that has
\* received an injection and holding an element itself, is closed and has kept
\* its expression body.
C7_Witness ==
  \E i \in 1..Len(functions) :
    /\ ~Includes(path, i)
    /\ functions[i].type = "ArrowFunctionExpression"
    /\ functions[i].body0 = ExpressionBody
    /\ functions[i].body = ExpressionBody
    /\ functions[i].parent # 0
    /\ Injected(functions[i].parent)
    /\ \E k \in 1..Len(elements) : elements[k].parent = i

\* ------------------------------------------------------------- C8
\* C8: the pass raises no error, whatever the tree and the configuration.
C8_NoError == pc # "error"

\* ------------------------------------------------------------- C9
IsEntryPoint(i) == functions[i].parent = 0 /\ functions[i].id = "MDXContent"

IsDefaultsLiteral(x) == x.type = "ObjectExpression"

IsProviderCall(x) ==
  /\ x.type = "CallExpression"
  /\ x.callee = Identifier("_provideComponents")
  /\ x.arguments = <<>>

IsPropsComponents(x) ==
  /\ x.type = "MemberExpression"
  /\ x.property = Identifier("components")

IsMerge(x) ==
  /\ x.type = "CallExpression"
  /\ x.callee = MemberExpression(Identifier("Object"), Identifier("assign"))

IsImport(stmt) ==
  stmt.type = (IF options.outputFormat = "function-body" THEN "VariableDeclaration"
               ELSE "ImportDeclaration")

IsHelper(stmt) ==
  stmt.type = "FunctionDeclaration" /\ stmt.id = Identifier("_missingComponent")

\* C10: the step that ends the pass turns the root statements into: the
\* provider import iff the provider flag is set, the helper declaration iff the
\* helper flag is set, then the original statements in their order; nothing else
\* is added, so each injected statement is there at most once.
C10_RootOrder ==
  [][pc' = "done" =>
       LET i == IF importProvider THEN 1 ELSE 0
           h == IF useMissingComponentHelper THEN 1 ELSE 0
       IN  /\ Len(body') = Len(body) + i + h
           /\ importProvider => IsImport(body'[1])
           /\ useMissingComponentHelper => IsHelper(body'[i + 1])
           /\ SubSeq(body', i + h + 1, Len(body')) = body
           /\ \A k \in 1..Len(body) : body[k].type = "RootStatement"]_vars

\* The pass has ended with the import, the helper and two original statements.
C10_Witness ==
  /\ pc = "done"
  /\ Len(body) = 4
  /\ body[1].type = "ImportDeclaration"
  /\ IsHelper(body[2])
  /\ body[3] = RootStatement("element", 1)
  /\ body[4] = RootStatement("function", 1)

\* ------------------------------------------------------------- C11
\* The function is a top-level function bound to the name MDXContent.
IsBoundEntryPoint(i) ==
  functions[i].parent = 0 /\ functions[i].binding = "MDXContent"

HasPropsPart(i) == IsPropsComponents(Last(PartsOf(i)))

\* C11: a function that receives an injection has the props part in its
\* initializer iff it is a top-level function bound to the name MDXContent,
\* whatever kind of function node it is, and the part reads `components` off
\* the first parameter of that function.
C11_PropsOfEntryPoint ==
  \A i \in 1..Len(functions) :
    Injected(i) =>
      /\ HasPropsPart(i) <=> IsBoundEntryPoint(i)
      /\ HasPropsPart(i) =>
           /\ Len(functions[i].params) > 0
           /\ Last(PartsOf(i)).object = Identifier(functions[i].params[1])

\* ------------------------------------------------------------- the generated helper, run
\* The value of an expression of the generated helper in an environment
RECURSIVE EvalExpression(_, _)
EvalExpression(e, env) ==
  CASE e.type = "Literal" -> [kind |-> "string", value |-> e.value]
    [] e.type = "Identifier" -> env[e.name]
    [] e.type = "BinaryExpression" ->
         [kind |-> "string",
          value |-> EvalExpression(e.left, env).value
                      \o EvalExpression(e.right, env).value]
    [] e.type = "FunctionExpression" ->
         [kind |-> "function", params |-> e.params, body |-> e.body, env |-> env]
    [] e.type = "NewExpression" ->
         [kind |-> "error", message |-> EvalExpression(e.arguments[1], env).value]

\* The completion of a statement list: a return, a throw, or its normal end
RECURSIVE ExecStatements(_, _)
ExecStatements(stmts, env) ==
  IF Len(stmts) = 0 THEN [type |-> "normal"]
  ELSE IF Head(stmts).type = "ReturnStatement"
  THEN [type |-> "return", value |-> EvalExpression(Head(stmts).argument, env)]
  ELSE IF Head(stmts).type = "ThrowStatement"
  THEN [type |-> "throw", value |-> EvalExpression(Head(stmts).argument, env)]
  ELSE ExecStatements(Tail(stmts), env)

\* The function value a function declaration of the root declares
DeclaredFunction(node) ==
  [kind |-> "function", params |-> node.params, body |-> node.body, env |-> <<>>]

\* The call f(args): the parameters are bound in front of the closure's
\* environment and the body is run
CallFunction(f, args) ==
  LET names == {f.params[j].name : j \in 1..Len(f.params)}
      env == [n \in names \cup DOMAIN f.env |->
                IF n \in names
                THEN args[CHOOSE j \in 1..Len(f.params) : f.params[j].name = n]
                ELSE f.env[n]]
  IN  ExecStatements(f.body.body, env)

\* ------------------------------------------------------------- C12
MissingMessage(n) ==
  "Component {backtick}" \o n \o "{backtick} was not imported, exported, or given"

IsFallbackEntry(prop) ==
  /\ prop.value.type = "CallExpression"
  /\ prop.value.callee = Identifier("_missingComponent")

\* The helper declared at the root of the output
RootHelper == body[CHOOSE k \in 1..Len(body) : IsHelper(body[k])]

\* The call `_missingComponent(<name>)` returns a function of no parameter, and
\* a call of that function throws the error that names <name>.
FallbackIsDeferred(call) ==
  LET arg == EvalExpression(call.arguments[1], <<>>)
      made == CallFunction(DeclaredFunction(RootHelper), <<arg>>)
  IN  /\ made.type = "return"
      /\ made.value.kind = "function"
      /\ made.value.params = <<>>
      /\ LET used == CallFunction(made.value, <<>>)
         IN  /\ used.type = "throw"
             /\ used.value.kind = "error"
             /\ used.value.message = MissingMessage(arg.value)

\* C12: in the output of the pass, every fallback entry `_missingComponent(name)`
\* of an injected defaults object is evaluated without an error and yields a
\* function of no parameter; calling that function raises the error with the
\* message "Component `name` was not imported, exported, or given".
C12_HelperDefersError ==
  pc = "done" =>
    \A i \in 1..Len(functions) :
      Injected(i) =>
        \A k \in 1..Len(DefaultsOf(i)) :
          IsFallbackEntry(DefaultsOf(i)[k]) =>
            /\ \E j \in 1..Len(body) : IsHelper(body[j])
            /\ FallbackIsDeferred(DefaultsOf(i)[k].value)

\* The pass has ended and a function holds the fallback entry of Foo.
C12_Witness ==
  /\ pc = "done"
  /\ \E i \in 1..Len(functions) :
       /\ Injected(i)
       /\ \E k \in 1..Len(DefaultsOf(i)) :
            /\ IsFallbackEntry(DefaultsOf(i)[k])
            /\ DefaultsOf(i)[k].key.name = "Foo"
            /\ CallFunction(CallFunction(DeclaredFunction(RootHelper),
                 <<[kind |-> "string", value |-> "Foo"]>>).value, <<>>).value.message
               = "Component {backtick}Foo{backtick} was not imported, exported, or given"

\* ------------------------------------------------------------- C13
\* What the pass tracks for an element entered in a function: the set and the
\* name, or nothing
Tracked(e) ==
  LET branch == Classify(e.name0, e.explicit)
      n == Leftmost(e.name0).name
  IN  IF branch = "tag" THEN <<"tags", n>>
      ELSE IF branch = "component" /\ n \notin topScope THEN <<"components", n>>
      ELSE IF branch = "object" /\ n \notin topScope THEN <<"objects", n>>
      ELSE <<>>

Holds(scope, tracked) ==
  tracked # <<>> =>
    Includes(IF tracked[1] = "tags" THEN scope.tags
             ELSE IF tracked[1] = "components" THEN scope.components
             ELSE scope.objects, tracked[2])

\* C13: the discovery of every element is recorded in the frame of the
\* outermost open function; the frames of the functions nested in it are empty
\* at every point, hence when they are popped, and no function nested in
\* another function ever receives injected declarations.
C13_OutermostFrameOnly ==
  /\ \A i \in 2..Len(stack) : stack[i] = EmptyScope
  /\ \A k \in 1..Len(elements) :
       (path # <<>> /\ elements[k].top = path[1]) =>
         Holds(stack[1], Tracked(elements[k]))
  /\ \A i \in 1..Len(functions) :
       functions[i].parent # 0 =>
         /\ ~Injected(i)
         /\ functions[i].body = functions[i].body0

\* An element entered in a nested function is recorded in the frame of the
\* outermost one, while both are open.
C13_Witness ==
  /\ Len(stack) = 2
  /\ stack[2] = EmptyScope
  /\ \E k \in 1..Len(elements) :
       /\ elements[k].parent = path[2]
       /\ Tracked(elements[k]) # <<>>
       /\ Holds(stack[1], Tracked(elements[k]))

\* ------------------------------------------------------------- C14
\* What a frame holds, as a set of <<set name, name>> pairs
Contents(scope) ==
  {<<"tags", scope.tags[j]>> : j \in 1..Len(scope.tags)}
    \cup {<<"components", scope.components[j]>> : j \in 1..Len(scope.components)}
    \cup {<<"objects", scope.objects[j]>> : j \in 1..Len(scope.objects)}

\* What the elements entered so far put in the frame of function f
DiscoveredUnder(f) ==
  {Tracked(elements[k]) :
     k \in {m \in 1..Len(elements) :
              elements[m].top = f /\ Tracked(elements[m]) # <<>>}}

\* C14: the stack holds one frame per open function, in nesting order: the
\* i-th frame holds what was discovered for the i-th open function and nothing
\* else, so the frame popped on leaving a function is the one pushed on
\* entering it; the stack is empty when the traversal has ended.
C14_OneFramePerOpenFunction ==
  /\ Len(stack) = Len(path)
  /\ \A i \in 1..Len(stack) : Contents(stack[i]) = DiscoveredUnder(path[i])
  /\ pc # "walk" => stack = <<>>

\* A nested function has been left and the frame that remains is the outer
\* function's, with its discoveries.
C14_Witness ==
  /\ Len(path) = 1
  /\ Len(stack) = 1
  /\ stack[1] # EmptyScope
  /\ \E i \in 1..Len(functions) :
       functions[i].parent = path[1] /\ i \notin {path[k] : k \in 1..Len(path)}

\* ------------------------------------------------------------- C15
\* The statements the function had before the pass; an implied return counts
\* as the one statement that returns the expression
OriginalStatements(i) ==
  IF functions[i].body0.type = "BlockStatement"
  THEN functions[i].body0.body
  ELSE <<ReturnStatement(functions[i].body0)>>

\* Some name was recorded for function i that the destructuring has to bind
HasActual(i) ==
  \E t \in DiscoveredUnder(i) : t[1] \in {"components", "objects"}

\* C15: the body of every function that received an injection is a block that
\* begins with the binding of _components, followed directly by the
\* destructuring of _components exactly when there is a name to destructure,
\* followed by the original statements in their order; an implied return has
\* become an explicit return of the same expression.
C15_InjectedBodyLayout ==
  \A i \in 1..Len(functions) :
    /\ functions[i].body # functions[i].body0 => Injected(i)
    /\ Injected(i) =>
         LET declarations == InjectedDeclarations(i)
         IN  /\ functions[i].body.body[1].kind = "const"
             /\ declarations[1].id = Identifier("_components")
             /\ Len(declarations) = IF HasActual(i) THEN 2 ELSE 1
             /\ Len(declarations) = 2 =>
                  /\ declarations[2].id.type = "ObjectPattern"
                  /\ Len(declarations[2].id.properties) > 0
                  /\ declarations[2].init = Identifier("_components")
             /\ Tail(functions[i].body.body) = OriginalStatements(i)

\* An arrow function with an implied return has received both bindings.
C15_Witness ==
  \E i \in 1..Len(functions) :
    /\ Injected(i)
    /\ functions[i].body0.type # "BlockStatement"
    /\ Len(InjectedDeclarations(i)) = 2

\* ------------------------------------------------------------- C16
\* The sets of a frame share no name and the defaults built from the frame
\* have no key twice
DisjointAndUniqueKeys(scope) ==
  /\ \A j \in 1..Len(scope.tags) : ~Includes(scope.components, scope.tags[j])
  /\ \A j \in 1..Len(Defaults(scope)) :
       KeyCount(Defaults(scope), Defaults(scope)[j].key.name) = 1

ComponentsAreComponentNames(scope) ==
  \A j \in 1..Len(scope.components) :
    /\ isIdentifierName(scope.components[j])
    /\ ~StartsLowerCase(scope.components[j])

\* C16 (as stated): in every frame at every point, every name in tags starts
\* with a lowercase letter and every name in components is a valid identifier
\* that does not start with a lowercase letter; the two sets are disjoint and
\* no key occurs twice in the defaults object.
C16_TagsLowerCaseComponentsNot ==
  \A i \in 1..Len(stack) :
    /\ \A j \in 1..Len(stack[i].tags) : StartsLowerCase(stack[i].tags[j])
    /\ ComponentsAreComponentNames(stack[i])
    /\ DisjointAndUniqueKeys(stack[i])

\* C16 (amended): in every frame at every point, every name in tags starts
\* with a lowercase letter or is not a valid identifier, and every name in
\* components is a valid identifier that does not start with a lowercase
\* letter; the two sets are disjoint and no key occurs twice in the defaults
\* object, neither in the one built from the frame nor in the injected one.
C16_TagsAreNotComponentNames ==
  /\ \A i \in 1..Len(stack) :
       /\ \A j \in 1..Len(stack[i].tags) :
            StartsLowerCase(stack[i].tags[j]) \/ ~isIdentifierName(stack[i].tags[j])
       /\ ComponentsAreComponentNames(stack[i])
       /\ DisjointAndUniqueKeys(stack[i])
  /\ \A i \in 1..Len(functions) :
       Injected(i) =>
         \A j \in 1..Len(DefaultsOf(i)) :
           KeyCount(DefaultsOf(i), DefaultsOf(i)[j].key.name) = 1

\* A frame holds a tag that starts with an uppercase letter, and a component.
C16_Witness ==
  /\ Len(stack) > 0
  /\ \E j \in 1..Len(stack[1].tags) :
       ~StartsLowerCase(stack[1].tags[j]) /\ ~isIdentifierName(stack[1].tags[j])
  /\ Len(stack[1].components) > 0

\* ------------------------------------------------------------- C17
\* How many entries of a pattern bind the local identifier n
BindingCount(props, n) ==
  Cardinality({k \in 1..Len(props) : props[k].value.name = n})

\* C17: in every function that received an injection, no local identifier is
\* bound by two entries of the destructuring pattern.
C17_PatternBindsOnce ==
  \A i \in 1..Len(functions) :
    Injected(i) =>
      \A j \in 1..Len(PatternOf(i)) :
        BindingCount(PatternOf(i), PatternOf(i)[j].value.name) = 1

\* ------------------------------------------------------------- C18
HelperAtRoot == \E k \in 1..Len(body) : IsHelper(body[k])

ProviderAtRoot == \E k \in 1..Len(body) : IsImport(body[k])

\* Some injected defaults object calls the helper
SomeFallbackCall ==
  \E i \in 1..Len(functions) :
    Injected(i) /\ \E j \in 1..Len(DefaultsOf(i)) : IsFallbackEntry(DefaultsOf(i)[j])

\* Some injected initializer calls the provider
SomeProviderCall ==
  \E i \in 1..Len(functions) :
    Injected(i) /\ \E j \in 1..Len(PartsOf(i)) : IsProviderCall(PartsOf(i)[j])

\* C18: after the pass, the declaration of _missingComponent is at the root
\* iff some injected defaults object holds a call of it, and the binding of
\* _provideComponents is at the root iff some injected initializer holds a
\* call of it.
C18_RootInjectionsAreUsed ==
  pc = "done" =>
    /\ HelperAtRoot <=> SomeFallbackCall
    /\ ProviderAtRoot <=> SomeProviderCall

\* The pass has ended with an injection that calls the provider and no
\* fallback: the provider binding is at the root and the helper is not.
C18_Witness ==
  /\ pc = "done"
  /\ SomeProviderCall
  /\ ProviderAtRoot
  /\ ~SomeFallbackCall
  /\ ~HelperAtRoot

\* ------------------------------------------------------------- C19
\* The opening name of the element was rewritten to _components.<name>
IsRewritten(e) ==
  /\ e.name0.type = "JSXIdentifier"
  /\ e.opening = ComponentsMember(e.name0.name)

\* C19: after the pass, every element whose name was rewritten to
\* _components.<name> lies in a function, the outermost function around it has
\* received the binding of _components, and the defaults object of that
\* binding has an entry for <name>.
C19_RewrittenHasBinding ==
  pc = "done" =>
    \A k \in 1..Len(elements) :
      IsRewritten(elements[k]) =>
        /\ elements[k].top # 0
        /\ Injected(elements[k].top)
        /\ InjectedDeclarations(elements[k].top)[1].id = Identifier("_components")
        /\ KeyCount(DefaultsOf(elements[k].top), elements[k].name0.name) > 0

\* The pass has ended with a rewritten element in a nested function.
C19_Witness ==
  /\ pc = "done"
  /\ \E k \in 1..Len(elements) :
       /\ IsRewritten(elements[k])
       /\ elements[k].parent # elements[k].top
       /\ Injected(elements[k].top)

\* ------------------------------------------------------------- C20
\* Every element entered so far lies outside every function
AllElementsOutside ==
  \A k \in 1..Len(elements) : elements[k].top = 0

\* C20: a step that enters an element while the stack is empty leaves the
\* names of the element as they were, whatever its category, and changes no
\* frame, no function and neither flag; and a pass over a tree whose elements
\* all lie outside functions ends with no injected statement, at the root or
\* in a function.
C20_OutsideFunctionsUntouched ==
  /\ [][(Len(elements') = Len(elements) + 1 /\ stack = <<>>) =>
          /\ NamesUnchanged(Last(elements'))
          /\ Last(elements').top = 0
          /\ SubSeq(elements', 1, Len(elements)) = elements
          /\ UNCHANGED <<stack, functions, useMissingComponentHelper,
                         importProvider, pc>>]_vars
  /\ [](AllElementsOutside =>
          /\ ~useMissingComponentHelper
          /\ ~importProvider
          /\ \A i \in 1..Len(functions) :
               functions[i].body = functions[i].body0
          /\ \A k \in 1..Len(body) : body[k].type = "RootStatement")

\* The pass has ended over a tree with a function and, outside it, two
\* elements, one of which would be redirected as a tag in a function.
C20_Witness ==
  /\ pc = "done"
  /\ Len(functions) > 0
  /\ Len(elements) = 2
  /\ AllElementsOutside
  /\ \E k \in 1..Len(elements) :
       Classify(elements[k].name0, elements[k].explicit) = "tag"
====
